---- MODULE Spec2Model ----
(***************************************************************************)
(* Model of src/data/config.js of Photo-Sphere-Viewer: getConfig resolves  *)
(* a partial option object against DEFAULTS through CONFIG_PARSERS.        *)
(*                                                                         *)
(* JavaScript values are tagged records.  Objects and arrays live in a     *)
(* heap (a sequence of objects, the index being the reference), so that    *)
(* aliasing and in-place mutation are visible.  A "literal" is a value     *)
(* written out structurally (what a caller writes between braces); it      *)
(* becomes a heap object when it is copied.  Angles are integers in        *)
(* degrees and speeds in degrees per second.                               *)
(***************************************************************************)
EXTENDS Integers, Sequences, FiniteSets, TLC

VARIABLES heap, pc, options, source, tempConfig, snapshot, keys, idx,
          config, warnings, error, calls, mutations

vars == <<heap, pc, options, source, tempConfig, snapshot, keys, idx,
          config, warnings, error, calls, mutations>>

(* ---------------------------- bounds ---------------------------------- *)
\* how many options besides container one caller input holds
MaxOpts == 2
\* how many times getConfig is called in one behaviour
MaxCalls == 2
\* how many times the caller mutates a returned configuration
MaxMutations == 1

(* ------------------------- JavaScript values -------------------------- *)
Null == [t |-> "null"]
Undefined == [t |-> "undef"]
NaN == [t |-> "nan"]
Bool(b) == [t |-> "bool", b |-> b]
Num(n) == [t |-> "num", n |-> n]
Str(s) == [t |-> "str", s |-> s]
\* an opaque host object: a DOM element, an adapter or plugin class
Host(s) == [t |-> "host", s |-> s]
\* a function inherited from Object.prototype
Func(s) == [t |-> "func", s |-> s]
Ref(a) == [t |-> "ref", a |-> a]
\* literals of arrays and of plain objects (ks: keys in insertion order)
List(l) == [t |-> "list", l |-> l]
Map(ks, vs) == [t |-> "map", ks |-> ks, vs |-> vs]

IsNum(v) == v.t = "num"
IsRef(v) == v.t = "ref"

\* !v
Falsy(v) ==
  \/ v.t \in {"null", "undef", "nan"}
  \/ v.t = "bool" /\ ~v.b
  \/ v.t = "num" /\ v.n = 0
  \/ v.t = "str" /\ v.s = ""

\* the position of key k in the key list ks, 0 when absent
IndexOf(ks, k) ==
  IF \E i \in 1..Len(ks) : ks[i] = k
  THEN CHOOSE i \in 1..Len(ks) : ks[i] = k
  ELSE 0

HasKey(o, k) == IndexOf(o.ks, k) # 0

\* o[k] on a plain object (own properties only)
Get(o, k) == IF HasKey(o, k) THEN o.vs[IndexOf(o.ks, k)] ELSE Undefined

\* o[k] = v: an existing key keeps its place, a new one goes last
Put(o, k, v) ==
  IF HasKey(o, k)
  THEN [o EXCEPT !.vs[IndexOf(o.ks, k)] = v]
  ELSE [o EXCEPT !.ks = Append(o.ks, k), !.vs = Append(o.vs, v)]

IsArray(h, v) == IsRef(v) /\ h[v.a].t = "list"
IsObject(h, v) == IsRef(v) /\ h[v.a].t = "map"

(* ------------------------------ heap ---------------------------------- *)
\* Folds over the entries of an object split the range in two halves and
\* compute the first half before the second is started: TLC evaluates
\* definitions on demand, and a long chain of pending heaps exhausts its
\* stack.  The entries are still taken left to right.
Evaluated(x) == x = x

RECURSIVE AllocVal(_, _), AllocItems(_, _, _, _)

\* a fresh deep copy of literal lit in heap h: [h: the new heap, v: the value]
AllocVal(h, lit) ==
  IF lit.t = "list"
  THEN LET items == AllocItems(h, lit.l, 1, Len(lit.l))
       IN [h |-> Append(items.h, List(items.vs)), v |-> Ref(Len(items.h) + 1)]
  ELSE IF lit.t = "map"
  THEN LET items == AllocItems(h, lit.vs, 1, Len(lit.vs))
       IN [h |-> Append(items.h, Map(lit.ks, items.vs)),
           v |-> Ref(Len(items.h) + 1)]
  ELSE [h |-> h, v |-> lit]

\* the literals lits[lo..hi] copied, one after the other
AllocItems(h, lits, lo, hi) ==
  IF lo > hi THEN [h |-> h, vs |-> <<>>]
  ELSE IF lo = hi
  THEN LET one == AllocVal(h, lits[lo])
       IN [h |-> one.h, vs |-> <<one.v>>]
  ELSE LET mid == (lo + hi) \div 2
           left == AllocItems(h, lits, lo, mid)
       IN IF Evaluated(left)
          THEN LET right == AllocItems(left.h, lits, mid + 1, hi)
               IN [h |-> right.h, vs |-> left.vs \o right.vs]
          ELSE left

RECURSIVE Lit(_, _), LitItems(_, _, _, _)

\* the structure below value v, written out as a literal
Lit(h, v) ==
  IF ~IsRef(v) THEN v
  ELSE IF h[v.a].t = "list"
  THEN List(LitItems(h, h[v.a].l, 1, Len(h[v.a].l)))
  ELSE Map(h[v.a].ks, LitItems(h, h[v.a].vs, 1, Len(h[v.a].vs)))

\* the values vs[lo..hi], written out
LitItems(h, vs, lo, hi) ==
  IF lo > hi THEN <<>>
  ELSE IF lo = hi THEN <<Lit(h, vs[lo])>>
  ELSE LET mid == (lo + hi) \div 2
       IN LitItems(h, vs, lo, mid) \o LitItems(h, vs, mid + 1, hi)

(* ------------------------- DEFAULTS (l.12-75) ------------------------- *)
DefaultNavbar ==
  List(<<Str("autorotate"), Str("zoom"), Str("move"), Str("download"),
         Str("caption"), Str("fullscreen")>>)

DefaultLang ==
  Map(<<"autorotate", "zoom", "zoomOut", "zoomIn", "download", "fullscreen",
        "menu", "twoFingers", "ctrlZoom", "loadError">>,
      <<Str("Automatic rotation"), Str("Zoom"), Str("Zoom out"), Str("Zoom in"),
        Str("Download"), Str("Fullscreen"), Str("Menu"),
        Str("Use two fingers to navigate"),
        Str("Use ctrl + scroll to zoom the image"),
        Str("The panorama can't be loaded")>>)

DefaultKeyboard ==
  Map(<<"ArrowUp", "ArrowDown", "ArrowRight", "ArrowLeft", "PageUp",
        "PageDown", "+", "-", " ">>,
      <<Str("ROTATE_LAT_UP"), Str("ROTATE_LAT_DOWN"), Str("ROTATE_LONG_RIGHT"),
        Str("ROTATE_LONG_LEFT"), Str("ZOOM_IN"), Str("ZOOM_OUT"),
        Str("ZOOM_IN"), Str("ZOOM_OUT"), Str("TOGGLE_AUTOROTATE")>>)

DefaultsLiteral ==
  Map(<<"panorama", "container", "adapter", "caption", "loadingImg",
        "loadingTxt", "size", "fisheye", "minFov", "maxFov",
        "defaultZoomLvl", "defaultLong", "defaultLat", "sphereCorrection",
        "sphereCorrectionReorder", "moveSpeed", "zoomSpeed",
        "autorotateDelay", "autorotateSpeed", "autorotateLat",
        "moveInertia", "mousewheel", "mousemove", "captureCursor",
        "mousewheelCtrlKey", "touchmoveTwoFingers", "useXmpData",
        "panoData", "canvasBackground", "withCredentials", "navbar",
        "lang", "keyboard", "plugins">>,
      <<Null, Null, Null, Null, Null,
        Str("Loading..."), Null, Bool(FALSE), Num(30), Num(90),
        Num(50), Num(0), Num(0), Null,
        Bool(FALSE), Num(1), Num(1),
        Null, Str("2rpm"), Null,
        Bool(TRUE), Bool(TRUE), Bool(TRUE), Bool(FALSE),
        Bool(FALSE), Bool(FALSE), Bool(TRUE),
        Null, Str("#000"), Bool(FALSE), DefaultNavbar,
        DefaultLang, DefaultKeyboard, List(<<>>)>>)

\* the heap once the module is loaded: it holds DEFAULTS and nothing else
ModuleHeap == AllocVal(<<>>, DefaultsLiteral)

\* the reference to the DEFAULTS object
DEFAULTS == ModuleHeap.v

\* own keys of DEFAULTS, as a set
DefaultKeys == {DefaultsLiteral.ks[i] : i \in 1..Len(DefaultsLiteral.ks)}

(* ------------------- DEPRECATED_OPTIONS (l.93-96) --------------------- *)
DeprecatedLiteral ==
  Map(<<"zoomButtonIncrement", "mousewheelSpeed">>,
      <<Str("zoomButtonIncrement is deprecated, use zoomSpeed"),
        Str("mousewheelSpeed is deprecated, use zoomSpeed")>>)

DeprecatedKeys == {DeprecatedLiteral.ks[i] : i \in 1..Len(DeprecatedLiteral.ks)}

\* properties every object literal inherits from Object.prototype
ObjectPrototypeKeys ==
  {"constructor", "hasOwnProperty", "isPrototypeOf", "propertyIsEnumerable",
   "toLocaleString", "toString", "valueOf"}

\* DEPRECATED_OPTIONS[key] (l.213): a property read, which follows the
\* prototype chain of the object literal
DEPRECATED_OPTIONS(key) ==
  IF HasKey(DeprecatedLiteral, key) THEN Get(DeprecatedLiteral, key)
  ELSE IF key \in ObjectPrototypeKeys THEN Func(key)
  ELSE Undefined

\* Object.prototype.hasOwnProperty.call(DEFAULTS, key) (l.218)
hasOwnProperty(h, key) == HasKey(h[DEFAULTS.a], key)

(* ------------------------------ utils --------------------------------- *)
\* results of a call that may warn or throw
NoError == [kind |-> "none", msg |-> ""]
PSVError(msg) == [kind |-> "PSVError", msg |-> msg]
TypeError(msg) == [kind |-> "TypeError", msg |-> msg]
Ok(h, v) == [h |-> h, v |-> v, w |-> <<>>, e |-> NoError]
OkWarn(h, v, w) == [h |-> h, v |-> v, w |-> w, e |-> NoError]
Throw(h, w, e) == [h |-> h, v |-> Undefined, w |-> w, e |-> e]

\* ToNumber of the values the numeric options take
ToNumber(v) ==
  IF v.t = "num" THEN v
  ELSE IF v.t = "null" THEN Num(0)
  ELSE IF v.t = "bool" THEN Num(IF v.b THEN 1 ELSE 0)
  ELSE NaN

\* a < b
LessThan(a, b) ==
  LET x == ToNumber(a)
      y == ToNumber(b)
  IN IsNum(x) /\ IsNum(y) /\ x.n < y.n

Min(a, b) == IF a < b THEN a ELSE b
Max(a, b) == IF a > b THEN a ELSE b

\* bound(x, min, max) = Math.max(min, Math.min(max, x))
bound(x, min, max) ==
  LET n == ToNumber(x)
  IN IF IsNum(n) THEN Num(Max(min, Min(max, n.n))) ELSE NaN

FullTurn == 360
HalfTurn == 180
QuarterTurn == 90

\* parseAngle(angle, zeroCenter): [0, 2pi) or, zero centered, [-pi/2, pi/2]
parseAngle(h, angle, zeroCenter) ==
  IF ~IsNum(angle) THEN Throw(h, <<>>, PSVError("unknown angle"))
  ELSE IF zeroCenter
  THEN Ok(h, bound(Num(((angle.n + HalfTurn) % FullTurn) - HalfTurn),
                   -QuarterTurn, QuarterTurn))
  ELSE Ok(h, Num(angle.n % FullTurn))

\* 2 turns per minute, in degrees per second
TwoRpm == 12

\* parseSpeed(speed): a number passes, a string with a unit is converted
parseSpeed(h, speed) ==
  IF IsNum(speed) THEN Ok(h, speed)
  ELSE IF speed = Str("2rpm") THEN Ok(h, Num(TwoRpm))
  ELSE Throw(h, <<>>, PSVError("unknown speed unit"))

\* clone(src): a deep, independent copy
clone(h, src) == AllocVal(h, Lit(h, src))

RECURSIVE deepmerge(_, _, _), MergeKeys(_, _, _, _, _)

\* deepmerge(target, src): mappings merge key by key, arrays and scalars
\* replace; what is taken from src is copied
deepmerge(h, target, src) ==
  IF src.t # "map" THEN h ELSE MergeKeys(h, target, src, 1, Len(src.ks))

\* the keys src.ks[lo..hi] merged into the object at target
MergeKeys(h, target, src, lo, hi) ==
  IF lo > hi THEN h
  ELSE IF lo = hi
  THEN LET k == src.ks[lo]
           sv == src.vs[lo]
           tv == Get(h[target], k)
       IN IF sv.t = "map" /\ IsObject(h, tv)
          THEN deepmerge(h, tv.a, sv)
          ELSE LET copy == AllocVal(h, sv)
               IN [copy.h EXCEPT ![target] = Put(copy.h[target], k, copy.v)]
  ELSE LET mid == (lo + hi) \div 2
           left == MergeKeys(h, target, src, lo, mid)
       IN IF Evaluated(left) THEN MergeKeys(left, target, src, mid + 1, hi)
          ELSE left

(* -------------------- CONFIG_PARSERS (l.102-197) ---------------------- *)
\* each parser takes the heap, the merged value and the merged tree
\* (tempConfig) and gives [h: heap, v: result, w: warnings, e: error]
FovLow == 1
FovHigh == 179

\* container without the check for a value
container_NoCheck(h, value, tree) == Ok(h, value)

container(h, value, tree) ==
  IF Falsy(value)
  THEN Throw(h, <<>>, PSVError("No value given for container."))
  ELSE Ok(h, value)

\* adapter wrapping whatever is given, an array too
adapter_AlwaysWraps(h, value, tree) ==
  IF Falsy(value)
  THEN LET a == AllocVal(h, List(<<Host("EquirectangularAdapter")>>))
       IN Ok(a.h, a.v)
  ELSE Ok(Append(h, List(<<value>>)), Ref(Len(h) + 1))

adapter(h, value, tree) ==
  IF Falsy(value)
  THEN LET a == AllocVal(h, List(<<Host("EquirectangularAdapter")>>))
       IN Ok(a.h, a.v)
  ELSE IF IsArray(h, value) THEN Ok(h, value)
  ELSE Ok(Append(h, List(<<value>>)), Ref(Len(h) + 1))

defaultLong(h, value, tree) == parseAngle(h, value, FALSE)

defaultLat(h, value, tree) == parseAngle(h, value, TRUE)

\* minFov without a look at maxFov
minFov_NoSibling(h, value, tree) == Ok(h, bound(value, FovLow, FovHigh))

minFov(h, value, tree) ==
  LET sibling == Get(h[tree], "maxFov")
  IN IF LessThan(sibling, value)
     THEN OkWarn(h, bound(sibling, FovLow, FovHigh),
                 <<Str("maxFov cannot be lower than minFov")>>)
     ELSE Ok(h, bound(value, FovLow, FovHigh))

\* maxFov ordered but not clamped
maxFov_NoBound(h, value, tree) ==
  LET sibling == Get(h[tree], "minFov")
  IN IF LessThan(value, sibling) THEN Ok(h, sibling) ELSE Ok(h, value)

maxFov(h, value, tree) ==
  LET sibling == Get(h[tree], "minFov")
  IN IF LessThan(value, sibling)
     THEN Ok(h, bound(sibling, FovLow, FovHigh))
     ELSE Ok(h, bound(value, FovLow, FovHigh))

RECURSIVE Assign(_, _, _, _)

\* the own properties src.ks[lo..hi] written onto object o
Assign(o, src, lo, hi) ==
  IF lo > hi THEN o
  ELSE IF lo = hi THEN Put(o, src.ks[lo], src.vs[lo])
  ELSE LET mid == (lo + hi) \div 2
           left == Assign(o, src, lo, mid)
       IN IF Evaluated(left) THEN Assign(left, src, mid + 1, hi) ELSE left

\* the own enumerable properties of the object at v, as spread copies them
Spread(h, v) ==
  IF IsObject(h, v) THEN h[v.a]
  ELSE IF IsArray(h, v)
  THEN Map([i \in 1..Len(h[v.a].l) |-> ToString(i - 1)], h[v.a].l)
  ELSE Map(<<>>, <<>>)

lang(h, value, tree) ==
  IF value.t \in {"null", "undef"}
  THEN Throw(h, <<>>, TypeError("Cannot read properties of null"))
  ELSE LET tf == IF IsObject(h, value) THEN Get(h[value.a], "twoFingers")
                 ELSE Undefined
           isArr == IsArray(h, tf)
           first == IF isArr /\ Len(h[tf.a].l) > 0 THEN h[tf.a].l[1]
                    ELSE Undefined
           h1 == IF isArr
                 THEN [h EXCEPT ![value.a] = Put(h[value.a], "twoFingers", first)]
                 ELSE h
           spread == Spread(h1, value)
           merged == Assign(h1[Get(h1[DEFAULTS.a], "lang").a], spread,
                            1, Len(spread.ks))
       IN OkWarn(Append(h1, merged), Ref(Len(h1) + 1),
                 IF isArr THEN <<Str("lang.twoFingers must not be an array")>>
                 ELSE <<>>)

\* keyboard handing out the default table itself, not a copy of it
keyboard_Shared(h, value, tree) ==
  IF value = Bool(TRUE) THEN Ok(h, Get(h[DEFAULTS.a], "keyboard"))
  ELSE Ok(h, value)

keyboard(h, value, tree) ==
  IF value = Bool(TRUE)
  THEN LET c == clone(h, Get(h[DEFAULTS.a], "keyboard"))
       IN Ok(c.h, c.v)
  ELSE Ok(h, value)

autorotateLat(h, value, tree) ==
  IF value = Null
  THEN parseAngle(h, Get(h[tree], "defaultLat"), TRUE)
  ELSE parseAngle(h, value, TRUE)

autorotateSpeed(h, value, tree) == parseSpeed(h, value)

fisheye(h, value, tree) ==
  IF value = Bool(TRUE) THEN Ok(h, Num(1))
  ELSE IF value = Bool(FALSE) THEN Ok(h, Num(0))
  ELSE Ok(h, value)

RECURSIVE MapPlugins(_, _, _)

\* plugins.map(...): every entry that is not an array is wrapped in one
MapPlugins(h, l, i) ==
  IF i > Len(l) THEN [h |-> h, vs |-> <<>>]
  ELSE LET one == IF IsArray(h, l[i]) THEN [h |-> h, v |-> l[i]]
                  ELSE [h |-> Append(h, List(<<l[i]>>)), v |-> Ref(Len(h) + 1)]
           rest == MapPlugins(one.h, l, i + 1)
       IN [h |-> rest.h, vs |-> <<one.v>> \o rest.vs]

\* plugin[0]
FirstOf(h, plugin) ==
  IF Len(h[plugin.a].l) > 0 THEN h[plugin.a].l[1] ELSE Undefined

plugins(h, value, tree) ==
  IF ~IsArray(h, value)
  THEN Throw(h, <<>>, TypeError("plugins.map is not a function"))
  ELSE LET m == MapPlugins(h, h[value.a].l, 1)
           kept == SelectSeq(m.vs, LAMBDA plugin : ~Falsy(FirstOf(m.h, plugin)))
       IN Ok(Append(m.h, List(kept)), Ref(Len(m.h) + 1))

ParserKeys ==
  {"container", "adapter", "defaultLong", "defaultLat", "minFov", "maxFov",
   "lang", "keyboard", "autorotateLat", "autorotateSpeed", "fisheye",
   "plugins"}

\* CONFIG_PARSERS[key](value, tempConfig)
CONFIG_PARSERS(key, h, value, tree) ==
  CASE key = "container" -> container(h, value, tree)
    [] key = "adapter" -> adapter(h, value, tree)
    [] key = "defaultLong" -> defaultLong(h, value, tree)
    [] key = "defaultLat" -> defaultLat(h, value, tree)
    [] key = "minFov" -> minFov(h, value, tree)
    [] key = "maxFov" -> maxFov(h, value, tree)
    [] key = "lang" -> lang(h, value, tree)
    [] key = "keyboard" -> keyboard(h, value, tree)
    [] key = "autorotateLat" -> autorotateLat(h, value, tree)
    [] key = "autorotateSpeed" -> autorotateSpeed(h, value, tree)
    [] key = "fisheye" -> fisheye(h, value, tree)
    [] key = "plugins" -> plugins(h, value, tree)

(* -------------------------- caller inputs ----------------------------- *)
\* what a caller may give for container: nothing, a falsy value, an element
ContainerChoices == {Undefined, Null, Str(""), Host("el")}

\* the other options a caller may give, as <<key, value>>; they are taken in
\* this order, and at most one value per key.  The values have the types the
\* options are documented with, or are the other forms the parsers look for
\* (a boolean fisheye, keyboard: true, an array for lang.twoFingers, a null
\* plugin); the last four keys are the deprecated ones and two that DEFAULTS
\* does not have.
OptionChoices ==
  << <<"adapter", Host("CubemapAdapter")>>,
     <<"adapter", List(<<Host("CubemapAdapter"), Str("opts")>>)>>,
     <<"fisheye", Bool(TRUE)>>,
     <<"fisheye", Num(2)>>,
     <<"minFov", Num(0)>>,
     <<"minFov", Num(100)>>,
     <<"minFov", Num(200)>>,
     <<"maxFov", Num(20)>>,
     <<"maxFov", Num(50)>>,
     <<"maxFov", Num(190)>>,
     <<"defaultLong", Num(400)>>,
     <<"defaultLat", Num(100)>>,
     <<"autorotateLat", Num(-30)>>,
     <<"navbar", List(<<Str("zoom")>>)>>,
     <<"lang", Map(<<"twoFingers">>, <<List(<<Str("a"), Str("b")>>)>>)>>,
     <<"lang", Map(<<"menu", "extra">>, <<Str("M"), Str("X")>>)>>,
     <<"keyboard", Bool(TRUE)>>,
     <<"keyboard", Bool(FALSE)>>,
     <<"keyboard", Map(<<>>, <<>>)>>,
     <<"keyboard", Map(<<"a", "ArrowUp">>, <<Str("ZOOM_IN"), Str("ZOOM_OUT")>>)>>,
     <<"plugins", List(<<Host("pluginA"),
                         List(<<Host("pluginB"), Str("opt")>>), Null>>)>>,
     <<"zoomButtonIncrement", Num(1)>>,
     <<"mousewheelSpeed", Num(1)>>,
     <<"foo", Num(1)>>,
     <<"toString", Num(1)>> >>

RECURSIVE PicksUpTo(_)

\* the sets of at most n choices, no two for the same key
PicksUpTo(n) ==
  IF n = 0 THEN {{}}
  ELSE LET P == PicksUpTo(n - 1)
       IN P \cup UNION {{s \cup {i} :
                           i \in {j \in 1..Len(OptionChoices) :
                                    \A x \in s : OptionChoices[x][1] # OptionChoices[j][1]}} :
                        s \in P}

RECURSIVE Ordered(_)

\* a set of numbers as an increasing sequence
Ordered(S) ==
  IF S = {} THEN <<>>
  ELSE LET m == CHOOSE x \in S : \A y \in S : x <= y
       IN <<m>> \o Ordered(S \ {m})

\* the option object a caller writes: container first, if given
OptionsOf(c, S) ==
  LET picks == Ordered(S)
      ks == [i \in 1..Len(picks) |-> OptionChoices[picks[i]][1]]
      vs == [i \in 1..Len(picks) |-> OptionChoices[picks[i]][2]]
  IN IF c = Undefined THEN Map(ks, vs)
     ELSE Map(<<"container">> \o ks, <<c>> \o vs)

Inputs == {OptionsOf(c, S) : c \in ContainerChoices, S \in PicksUpTo(MaxOpts)}

(* --------------------------- getConfig -------------------------------- *)
Init ==
  /\ heap = ModuleHeap.h
  /\ pc = "idle"
  /\ options = Map(<<>>, <<>>)
  /\ source = "none"
  /\ tempConfig = 0
  /\ snapshot = Map(<<>>, <<>>)
  /\ keys = <<>>
  /\ idx = 0
  /\ config = 0
  /\ warnings = <<>>
  /\ error = NoError
  /\ calls = 0
  /\ mutations = 0

\* l.207-212: clone DEFAULTS, merge the options, start from an empty
\* config and take the keys of the merged tree
getConfig(opts, from) ==
  LET c == clone(heap, DEFAULTS)
      h1 == deepmerge(c.h, c.v.a, opts)
  IN /\ heap' = Append(h1, Map(<<>>, <<>>))
     /\ config' = Len(h1) + 1
     /\ tempConfig' = c.v.a
     /\ snapshot' = Lit(h1, c.v)
     /\ keys' = h1[c.v.a].ks
     /\ idx' = 1
     /\ warnings' = <<>>
     /\ error' = NoError
     /\ pc' = "each"
     /\ options' = opts
     /\ source' = from
     /\ calls' = calls + 1
     /\ UNCHANGED mutations

\* a caller resolves an option object of its own
Call ==
  /\ pc = "idle"
  /\ calls < MaxCalls
  /\ \E opts \in Inputs : getConfig(opts, "caller")

\* a caller resolves the configuration that was returned to it, as returned
Reresolve ==
  /\ pc = "returned"
  /\ calls < MaxCalls
  /\ mutations = 0
  /\ getConfig(Lit(heap, Ref(config)), "resolved")

InLoop == pc = "each" /\ idx \in 1..Len(keys)
CurrentKey == keys[idx]
CurrentValue == Get(heap[tempConfig], CurrentKey)

\* no key taken as deprecated
IsDeprecated_Never(key) == FALSE

\* no key taken as unknown
IsUnknown_Never(h, key) == FALSE

\* l.213
IsDeprecated(key) == ~Falsy(DEPRECATED_OPTIONS(key))

\* l.218
IsUnknown(h, key) == ~hasOwnProperty(h, key)

\* l.213-216: a deprecated key is warned about and skipped
Deprecated ==
  /\ InLoop
  /\ IsDeprecated(CurrentKey)
  /\ warnings' = Append(warnings, DEPRECATED_OPTIONS(CurrentKey))
  /\ idx' = idx + 1
  /\ UNCHANGED <<heap, pc, options, source, tempConfig, snapshot, keys,
                 config, error, calls, mutations>>

\* l.218-220: a key DEFAULTS does not have ends the resolution
Unknown ==
  /\ InLoop
  /\ ~IsDeprecated(CurrentKey)
  /\ IsUnknown(heap, CurrentKey)
  /\ pc' = "failed"
  /\ error' = PSVError("Unknown option")
  /\ config' = 0
  /\ UNCHANGED <<heap, options, source, tempConfig, snapshot, keys, idx,
                 warnings, calls, mutations>>

\* config[key] = value
Store(h, cfg, key, value) == [h EXCEPT ![cfg] = Put(h[cfg], key, value)]

\* l.222-224: the parser of the key gives the value, or throws
Parse ==
  /\ InLoop
  /\ ~IsDeprecated(CurrentKey)
  /\ ~IsUnknown(heap, CurrentKey)
  /\ CurrentKey \in ParserKeys
  /\ LET r == CONFIG_PARSERS(CurrentKey, heap, CurrentValue, tempConfig)
     IN /\ warnings' = warnings \o r.w
        /\ IF r.e = NoError
           THEN /\ heap' = Store(r.h, config, CurrentKey, r.v)
                /\ idx' = idx + 1
                /\ UNCHANGED <<pc, error, config>>
           ELSE /\ heap' = r.h
                /\ pc' = "failed"
                /\ error' = r.e
                /\ config' = 0
                /\ UNCHANGED idx
  /\ UNCHANGED <<options, source, tempConfig, snapshot, keys, calls, mutations>>

\* l.225-227: a key without parser is copied
Copy ==
  /\ InLoop
  /\ ~IsDeprecated(CurrentKey)
  /\ ~IsUnknown(heap, CurrentKey)
  /\ CurrentKey \notin ParserKeys
  /\ heap' = Store(heap, config, CurrentKey, CurrentValue)
  /\ idx' = idx + 1
  /\ UNCHANGED <<pc, options, source, tempConfig, snapshot, keys, config,
                 warnings, error, calls, mutations>>

\* l.230
Return ==
  /\ pc = "each"
  /\ idx > Len(keys)
  /\ pc' = "returned"
  /\ UNCHANGED <<heap, options, source, tempConfig, snapshot, keys, idx,
                 config, warnings, error, calls, mutations>>

(* ------------------- the caller and the returned value ---------------- *)
\* the keys of the returned configuration that hold an object or an array
NestedKeys ==
  {keys[i] : i \in {j \in 1..Len(keys) : IsRef(Get(heap[config], keys[j]))}}

\* an in-place change of an object or an array
Changed(o) ==
  IF o.t = "list" THEN List(Append(o.l, Str("changed")))
  ELSE IF Len(o.ks) = 0 THEN Put(o, "changed", Str("changed"))
  ELSE Put(o, o.ks[1], Str("changed"))

\* the caller changes, in place, a nested value of the returned configuration
Mutate ==
  /\ pc = "returned"
  /\ mutations < MaxMutations
  /\ \E k \in NestedKeys :
       LET a == Get(heap[config], k).a
       IN heap' = [heap EXCEPT ![a] = Changed(heap[a])]
  /\ mutations' = mutations + 1
  /\ UNCHANGED <<pc, options, source, tempConfig, snapshot, keys, idx,
                 config, warnings, error, calls>>

Next ==
  \/ Call
  \/ Reresolve
  \/ Deprecated
  \/ Unknown
  \/ Parse
  \/ Copy
  \/ Return
  \/ Mutate

Spec == Init /\ [][Next]_vars

(* ---------------------- what the claims speak of ----------------------- *)
Supplied(k) == HasKey(options, k)
Given(k) == Get(options, k)
FromCaller == source = "caller"
Returned == pc = "returned"
Failed == pc = "failed"

\* the keys of an object, as a set
KeySet(o) == {o.ks[i] : i \in 1..Len(o.ks)}

\* the returned configuration
Result == heap[config]

\* the addresses of DEFAULTS and of what it holds
DefaultsAddrs == 1..Len(ModuleHeap.h)

\* the position of a key in the pass
Pos(k) == IndexOf(keys, k)

\* the pass has handled key k
Handled(k) == \/ Returned
              \/ pc = "each" /\ idx > Pos(k)

Clamp(n) == IF n < 1 THEN 1 ELSE IF n > 179 THEN 179 ELSE n

FovWarning == Str("maxFov cannot be lower than minFov")

FovWarnings == Len(SelectSeq(warnings, LAMBDA w : w = FovWarning))

(* ------------------------------ claims -------------------------------- *)
\* C1: an input with a key that DEFAULTS does not have never resolves: the
\* call ends with a PSVError.  The keys DEPRECATED_OPTIONS lists, which are
\* warned about and dropped, are left aside here, so that what is found is
\* a key that neither table lists.
C1_UnknownKeyFails ==
  (/\ FromCaller
   /\ pc # "each"
   /\ \E k \in KeySet(options) : k \notin DefaultKeys \cup DeprecatedKeys)
  => Failed /\ error.kind = "PSVError"

\* C2: an input without container, or with a falsy one, never gets past the
\* container parser and ends with a PSVError, whatever else it holds.
C2_MissingContainerFails ==
  (FromCaller /\ Falsy(Given("container")))
  => \/ pc = "each" /\ idx <= Pos("container")
     \/ Failed /\ error.kind = "PSVError"

C2_Witness ==
  /\ FromCaller /\ Failed
  /\ Given("container") = Null
  /\ Supplied("mousewheelSpeed")
  /\ Supplied("foo")

\* C3 as stated: an input with deprecated keys only resolves, with one
\* warning per key and none of the keys in the result.
C3_OnlyDeprecatedResolves ==
  (/\ FromCaller
   /\ pc # "each"
   /\ KeySet(options) # {}
   /\ KeySet(options) \subseteq DeprecatedKeys)
  => /\ Returned
     /\ Len(warnings) = Len(options.ks)
     /\ KeySet(Result) \cap DeprecatedKeys = {}

\* the warnings of the deprecated keys of the input, in the order given
DeprecatedGiven == SelectSeq(options.ks, LAMBDA k : k \in DeprecatedKeys)
ExpectedWarnings ==
  [i \in 1..Len(DeprecatedGiven) |-> Get(DeprecatedLiteral, DeprecatedGiven[i])]

\* C3 as amended: an input with a truthy container and deprecated keys only
\* resolves, the warnings are exactly those of the deprecated keys given, one
\* each, and none of these keys is in the result.
C3_ContainerAndDeprecatedResolves ==
  (/\ FromCaller
   /\ ~Falsy(Given("container"))
   /\ KeySet(options) \subseteq {"container"} \cup DeprecatedKeys)
  => /\ ~Failed
     /\ Returned => /\ warnings = ExpectedWarnings
                    /\ KeySet(Result) \cap DeprecatedKeys = {}

C3_Witness ==
  /\ FromCaller /\ Returned
  /\ KeySet(options) = {"container"} \cup DeprecatedKeys
  /\ Len(warnings) = 2

\* C4: a returned configuration has the keys of DEFAULTS, each once, and no
\* other key.
C4_ResultKeysAreDefaultKeys ==
  Returned => /\ KeySet(Result) = DefaultKeys
              /\ Len(Result.ks) = Cardinality(DefaultKeys)

C4_Witness ==
  /\ FromCaller /\ Returned
  /\ Supplied("mousewheelSpeed")
  /\ Supplied("toString")

\* C5: with numbers for minFov and maxFov in the merged tree, a returned
\* configuration has 1 <= minFov <= maxFov <= 179.
C5_FovInRangeAndOrdered ==
  (/\ Returned
   /\ IsNum(Get(snapshot, "minFov"))
   /\ IsNum(Get(snapshot, "maxFov")))
  => /\ IsNum(Get(Result, "minFov"))
     /\ IsNum(Get(Result, "maxFov"))
     /\ 1 <= Get(Result, "minFov").n
     /\ Get(Result, "minFov").n <= Get(Result, "maxFov").n
     /\ Get(Result, "maxFov").n <= 179

C5_Witness ==
  /\ Returned
  /\ Get(snapshot, "minFov") = Num(200)
  /\ Get(snapshot, "maxFov") = Num(190)

\* C6: a keyboard option other than true is returned as the caller gave it:
\* the returned table holds the caller's bindings and no other.
C6_KeyboardAsGiven ==
  (/\ FromCaller /\ Returned /\ mutations = 0
   /\ Supplied("keyboard")
   /\ Given("keyboard") # Bool(TRUE))
  => Lit(heap, Get(Result, "keyboard")) = Given("keyboard")

\* C7: DEFAULTS and what it holds stay as written, whatever is resolved and
\* whatever the caller changes in a result; no object or array of a result is
\* one of DEFAULTS; keyboard: true gives a table equal to the default one.
C7_DefaultsNeverAltered ==
  /\ Lit(heap, DEFAULTS) = DefaultsLiteral
  /\ Returned =>
       \A k \in NestedKeys : Get(Result, k).a \notin DefaultsAddrs
  /\ (Returned /\ FromCaller /\ mutations = 0 /\ Given("keyboard") = Bool(TRUE))
     => Lit(heap, Get(Result, "keyboard")) = DefaultKeyboard

C7_Witness ==
  /\ Returned /\ FromCaller
  /\ Given("keyboard") = Bool(TRUE)
  /\ mutations > 0
  /\ Lit(heap, Get(Result, "keyboard")) # DefaultKeyboard

\* C8: resolving a returned configuration succeeds and returns a
\* configuration with the same structure, key by key.
C8_Idempotent ==
  source = "resolved"
  => /\ ~Failed
     /\ (Returned /\ mutations = 0) => Lit(heap, Ref(config)) = options

C8_Witness ==
  /\ Returned /\ source = "resolved" /\ mutations = 0
  /\ Get(options, "fisheye") = Num(1)
  /\ Get(options, "adapter") = List(<<Host("CubemapAdapter")>>)

\* C9: each of the minFov and maxFov parsers reads the other value from the
\* merged tree.  If merged maxFov < merged minFov, minFov resolves to the
\* merged maxFov and maxFov to the merged minFov, both clamped to [1, 179],
\* and the minFov parser alone warns; otherwise each resolves to its own
\* merged value, clamped, and nothing is warned.
C9_FovIndependentCorrection ==
  LET m == Get(snapshot, "minFov")
      M == Get(snapshot, "maxFov")
      inverted == M.n < m.n
  IN (pc \in {"each", "returned"} /\ IsNum(m) /\ IsNum(M))
     => /\ Handled("minFov") =>
             /\ Get(Result, "minFov") = Num(Clamp(IF inverted THEN M.n ELSE m.n))
             /\ FovWarnings = IF inverted THEN 1 ELSE 0
        /\ ~Handled("minFov") => FovWarnings = 0
        /\ Handled("maxFov") =>
             Get(Result, "maxFov") = Num(Clamp(IF inverted THEN m.n ELSE M.n))

C9_Witness ==
  /\ Returned /\ FromCaller
  /\ Given("minFov") = Num(100)
  /\ Given("maxFov") = Num(50)
  /\ Get(Result, "minFov") = Num(50)
  /\ Get(Result, "maxFov") = Num(100)
  /\ FovWarnings = 1

\* C10: during a pass the merged tree stays as it was when the pass began,
\* nested values included.
C10_MergedTreeUntouched ==
  pc = "each" => Lit(heap, Ref(tempConfig)) = snapshot

====
